---- MODULE Spec2Model ----
(***************************************************************************)
(* Model of fishook.py: a dispatcher that resolves the path of fishook.sh, *)
(* spawns `<interpreter> <script> <args...>` with subprocess.call, waits   *)
(* for the child and exits with the child's return code.                   *)
(*                                                                         *)
(* One behaviour of the model is one invocation of one console entrypoint  *)
(* (main or one of the 22 hook_* functions) on a POSIX host.  The inputs   *)
(* of the invocation (entrypoint, sys.argv, os.environ, the install        *)
(* layout, the file system) are chosen in Init.                            *)
(***************************************************************************)
EXTENDS Integers, Sequences, FiniteSets, TLC

VARIABLES
    entry,        \* the console entrypoint that was called
    argv,         \* sys.argv (argv[1] here is Python's sys.argv[0])
    env,          \* os.environ, a function from the set variable names
    here,         \* directory of the installed module (Path(__file__).resolve().parent)
    scriptExists, \* whether fishook.sh is present in `here`
    pathHasBash,  \* whether the OS search path resolves the name "bash"
    pc,           \* position of the dispatcher process
    args,         \* the list handed to _run_sh
    sh,           \* local `sh` of _run_sh
    bash,         \* local `bash` of _run_sh
    cmd,          \* the command list handed to subprocess.call
    spawns,       \* number of child-process spawns issued
    childState,   \* "none", "running", "exited", "signaled"
    childCode,    \* exit status or signal number of the terminated child
    returncode,   \* value returned by subprocess.call
    exitStatus    \* the dispatcher's own process exit status

vars == <<entry, argv, env, here, scriptExists, pathHasBash, pc, args, sh,
          bash, cmd, spawns, childState, childCode, returncode, exitStatus>>

inputs == <<entry, argv, env, here, scriptExists, pathHasBash>>

----------------------------------------------------------------------------
(* Bounds of the model *)

MaxArgs == 3

ArgValues == {"--verbose", "update"}

Argv0s == {"/usr/bin/fishook", "/opt/venv/bin/fishook"}

Layouts == {"/usr/lib/python3/site-packages/fishook", "/opt/venv/lib/fishook"}

\* executables that exist on the host, and the status each reports when it
\* cannot open the script file it was given
ValidExecutables == {"/usr/bin/bash", "/bin/sh"}

BashValues == ValidExecutables \cup {"", "nosuch"}

ExitCodes == {0, 1, 17, 127, 255}

Signals == {9, 15}

ArgSeqs == UNION {[1..n -> ArgValues] : n \in 0..MaxArgs}

Environs == {<<>>} \cup {[k \in {"BASH"} |-> v] : v \in BashValues}

----------------------------------------------------------------------------
(* The code *)

\* a copy-paste slip in the table: hook_post_update passes "post-receive"
HookToken_slip ==
    [hook_applypatch_msg     |-> "applypatch-msg",
     hook_pre_applypatch     |-> "pre-applypatch",
     hook_post_applypatch    |-> "post-applypatch",
     hook_pre_commit         |-> "pre-commit",
     hook_pre_merge_commit   |-> "pre-merge-commit",
     hook_prepare_commit_msg |-> "prepare-commit-msg",
     hook_commit_msg         |-> "commit-msg",
     hook_post_commit        |-> "post-commit",
     hook_pre_rebase         |-> "pre-rebase",
     hook_post_checkout      |-> "post-checkout",
     hook_post_merge         |-> "post-merge",
     hook_post_rewrite       |-> "post-rewrite",
     hook_pre_push           |-> "pre-push",
     hook_pre_auto_gc        |-> "pre-auto-gc",
     hook_pre_receive        |-> "pre-receive",
     hook_update             |-> "update",
     hook_post_receive       |-> "post-receive",
     hook_post_update        |-> "post-receive",
     hook_push_to_checkout   |-> "push-to-checkout",
     hook_proc_receive       |-> "proc-receive",
     hook_sendemail_validate |-> "sendemail-validate",
     hook_fsmonitor_watchman |-> "fsmonitor-watchman"]

\* lines 27-53: the token each hook_* entrypoint passes to _hook
HookToken ==
    [hook_applypatch_msg     |-> "applypatch-msg",
     hook_pre_applypatch     |-> "pre-applypatch",
     hook_post_applypatch    |-> "post-applypatch",
     hook_pre_commit         |-> "pre-commit",
     hook_pre_merge_commit   |-> "pre-merge-commit",
     hook_prepare_commit_msg |-> "prepare-commit-msg",
     hook_commit_msg         |-> "commit-msg",
     hook_post_commit        |-> "post-commit",
     hook_pre_rebase         |-> "pre-rebase",
     hook_post_checkout      |-> "post-checkout",
     hook_post_merge         |-> "post-merge",
     hook_post_rewrite       |-> "post-rewrite",
     hook_pre_push           |-> "pre-push",
     hook_pre_auto_gc        |-> "pre-auto-gc",
     hook_pre_receive        |-> "pre-receive",
     hook_update             |-> "update",
     hook_post_receive       |-> "post-receive",
     hook_post_update        |-> "post-update",
     hook_push_to_checkout   |-> "push-to-checkout",
     hook_proc_receive       |-> "proc-receive",
     hook_sendemail_validate |-> "sendemail-validate",
     hook_fsmonitor_watchman |-> "fsmonitor-watchman"]

HookEntries == DOMAIN HookToken

Entries == {"main"} \cup HookEntries

\* sys.argv instead of sys.argv[1:]: the program name is forwarded too
main_args_argv0(av) == av

\* sys.argv[1:]
main_args(av) == Tail(av)

\* [name, *sys.argv[1:]]
_hook_args(name, av) == <<name>> \o Tail(av)

\* the script looked up next to sys.argv[0] instead of next to __file__
_fishook_sh_argv0(dir) == <<argv[1], "fishook.sh">>

\* here / "fishook.sh"
_fishook_sh(dir) == <<dir, "fishook.sh">>

\* the variable is never read
environ_get_default(e, key, default) == default

\* os.environ.get(key) or default: an empty value falls back to the default
environ_get_or(e, key, default) ==
    IF key \in DOMAIN e /\ e[key] # "" THEN e[key] ELSE default

\* os.environ.get(key, default)
environ_get(e, key, default) == IF key \in DOMAIN e THEN e[key] ELSE default

\* [bash, sh, *args]
Command(b, s, a) == <<b, s>> \o a

\* whether the OS can execute the program named as the interpreter
CanExec(b) == b \in ValidExecutables \/ (b = "bash" /\ pathHasBash)

\* status an interpreter reports when the script file cannot be opened
CannotOpenStatus(b) == IF b = "/bin/sh" THEN 2 ELSE 127

\* the exit-status field alone, which is 0 for a signaled child
Returncode_status(state, code) == IF state = "signaled" THEN 0 ELSE code

\* Popen.returncode: the exit status, or -N when killed by signal N
Returncode(state, code) == IF state = "signaled" THEN 0 - code ELSE code

\* the return code reduced to success/failure
SystemExit_bool(n) == IF n = 0 THEN 0 ELSE 1

\* the process status of `raise SystemExit(n)`: the low 8 bits of n
SystemExit(n) == n % 256

----------------------------------------------------------------------------

Init ==
    /\ entry \in Entries
    /\ argv \in {<<a0>> \o a : a0 \in Argv0s, a \in ArgSeqs}
    /\ env \in Environs
    /\ here \in Layouts
    /\ scriptExists \in BOOLEAN
    /\ pathHasBash \in BOOLEAN
    /\ pc = "start"
    /\ args = <<>>
    /\ sh = <<>>
    /\ bash = ""
    /\ cmd = <<>>
    /\ spawns = 0
    /\ childState = "none"
    /\ childCode = 0
    /\ returncode = 0
    /\ exitStatus = 0

\* main(): evaluate sys.argv[1:] and call _run_sh
CallMain ==
    /\ pc = "start"
    /\ entry = "main"
    /\ args' = main_args(argv)
    /\ pc' = "run_sh"
    /\ UNCHANGED <<inputs, sh, bash, cmd, spawns, childState, childCode,
                   returncode, exitStatus>>

\* hook_xxx() -> _hook(name): evaluate [name, *sys.argv[1:]] and call _run_sh
CallHook ==
    /\ pc = "start"
    /\ entry \in HookEntries
    /\ args' = _hook_args(HookToken[entry], argv)
    /\ pc' = "run_sh"
    /\ UNCHANGED <<inputs, sh, bash, cmd, spawns, childState, childCode,
                   returncode, exitStatus>>

\* _run_sh lines 14-16: resolve the script path and pick the interpreter
RunSh ==
    /\ pc = "run_sh"
    /\ sh' = _fishook_sh(here)
    /\ bash' = environ_get(env, "BASH", "bash")
    /\ pc' = "call"
    /\ UNCHANGED <<inputs, args, cmd, spawns, childState, childCode,
                   returncode, exitStatus>>

\* subprocess.call: the interpreter is found, the child is created
SpawnOk ==
    /\ pc = "call"
    /\ CanExec(bash)
    /\ cmd' = Command(bash, sh, args)
    /\ spawns' = spawns + 1
    /\ childState' = "running"
    /\ pc' = "wait"
    /\ UNCHANGED <<inputs, args, sh, bash, childCode, returncode, exitStatus>>

\* subprocess.call: the interpreter cannot be executed, OSError is raised
SpawnFail ==
    /\ pc = "call"
    /\ ~CanExec(bash)
    /\ cmd' = Command(bash, sh, args)
    /\ spawns' = spawns + 1
    /\ pc' = "raised"
    /\ UNCHANGED <<inputs, args, sh, bash, childState, childCode, returncode,
                   exitStatus>>

\* the child exits by itself: with the script's status, or with the
\* interpreter's own failing status when the script cannot be opened
ChildExits ==
    /\ childState = "running"
    /\ childState' = "exited"
    /\ IF scriptExists
         THEN \E e \in ExitCodes : childCode' = e
         ELSE childCode' = CannotOpenStatus(bash)
    /\ UNCHANGED <<inputs, pc, args, sh, bash, cmd, spawns, returncode,
                   exitStatus>>

\* the child is killed by a signal
ChildKilled ==
    /\ childState = "running"
    /\ childState' = "signaled"
    /\ \E s \in Signals : childCode' = s
    /\ UNCHANGED <<inputs, pc, args, sh, bash, cmd, spawns, returncode,
                   exitStatus>>

\* Popen without wait: control returns while the child is still running
WaitReturns_nowait ==
    /\ pc = "wait"
    /\ returncode' = Returncode(childState, childCode)
    /\ pc' = "returned"
    /\ UNCHANGED <<inputs, args, sh, bash, cmd, spawns, childState, childCode,
                   exitStatus>>

\* subprocess.call returns once the child has terminated
WaitReturns ==
    /\ pc = "wait"
    /\ childState \in {"exited", "signaled"}
    /\ returncode' = Returncode(childState, childCode)
    /\ pc' = "returned"
    /\ UNCHANGED <<inputs, args, sh, bash, cmd, spawns, childState, childCode,
                   exitStatus>>

\* main(): raise SystemExit(<return value of _run_sh>)
MainExit ==
    /\ pc = "returned"
    /\ entry = "main"
    /\ exitStatus' = SystemExit(returncode)
    /\ pc' = "done"
    /\ UNCHANGED <<inputs, args, sh, bash, cmd, spawns, childState, childCode,
                   returncode>>

\* _hook() without the raise: the return value of _run_sh is dropped
HookExit_dropped ==
    /\ pc = "returned"
    /\ entry \in HookEntries
    /\ exitStatus' = 0
    /\ pc' = "done"
    /\ UNCHANGED <<inputs, args, sh, bash, cmd, spawns, childState, childCode,
                   returncode>>

\* _hook(): raise SystemExit(<return value of _run_sh>)
HookExit ==
    /\ pc = "returned"
    /\ entry \in HookEntries
    /\ exitStatus' = SystemExit(returncode)
    /\ pc' = "done"
    /\ UNCHANGED <<inputs, args, sh, bash, cmd, spawns, childState, childCode,
                   returncode>>

\* the OSError swallowed by an except clause that returns 0
UncaughtOSError_swallowed ==
    /\ pc = "raised"
    /\ exitStatus' = 0
    /\ pc' = "done"
    /\ UNCHANGED <<inputs, args, sh, bash, cmd, spawns, childState, childCode,
                   returncode>>

\* the OSError of subprocess.call is caught nowhere: the interpreter prints
\* the traceback and the process ends with status 1
UncaughtOSError ==
    /\ pc = "raised"
    /\ exitStatus' = 1
    /\ pc' = "done"
    /\ UNCHANGED <<inputs, args, sh, bash, cmd, spawns, childState, childCode,
                   returncode>>

Next ==
    \/ CallMain
    \/ CallHook
    \/ RunSh
    \/ SpawnOk
    \/ SpawnFail
    \/ ChildExits
    \/ ChildKilled
    \/ WaitReturns
    \/ MainExit
    \/ HookExit
    \/ UncaughtOSError

Spec == Init /\ [][Next]_vars

\* The dispatcher is a running process: each of its own steps is taken once
\* enabled.  The child is not under its control and may run forever.
FairSpec ==
    /\ Spec
    /\ WF_vars(CallMain) /\ WF_vars(CallHook) /\ WF_vars(RunSh)
    /\ WF_vars(SpawnOk) /\ WF_vars(SpawnFail) /\ WF_vars(WaitReturns)
    /\ WF_vars(MainExit) /\ WF_vars(HookExit) /\ WF_vars(UncaughtOSError)

TypeOK ==
    /\ entry \in Entries
    /\ pc \in {"start", "run_sh", "call", "wait", "raised", "returned", "done"}
    /\ spawns \in 0..1
    /\ childState \in {"none", "running", "exited", "signaled"}
    /\ exitStatus \in 0..255

----------------------------------------------------------------------------
(* Properties *)

\* the dispatcher has handed its command list to subprocess.call
Called == pc \in {"wait", "raised", "returned", "done"}

\* the interpreter and the script path every entrypoint is meant to use
Interpreter == IF "BASH" \in DOMAIN env THEN env["BASH"] ELSE "bash"

ScriptPath == <<here, "fishook.sh">>

\* the 22 hook commands of the CLI surface and the entrypoint bound to each
ListedHookName ==
    [hook_applypatch_msg     |-> "applypatch-msg",
     hook_pre_applypatch     |-> "pre-applypatch",
     hook_post_applypatch    |-> "post-applypatch",
     hook_pre_commit         |-> "pre-commit",
     hook_pre_merge_commit   |-> "pre-merge-commit",
     hook_prepare_commit_msg |-> "prepare-commit-msg",
     hook_commit_msg         |-> "commit-msg",
     hook_post_commit        |-> "post-commit",
     hook_pre_rebase         |-> "pre-rebase",
     hook_post_checkout      |-> "post-checkout",
     hook_post_merge         |-> "post-merge",
     hook_post_rewrite       |-> "post-rewrite",
     hook_pre_push           |-> "pre-push",
     hook_pre_auto_gc        |-> "pre-auto-gc",
     hook_pre_receive        |-> "pre-receive",
     hook_update             |-> "update",
     hook_post_receive       |-> "post-receive",
     hook_post_update        |-> "post-update",
     hook_push_to_checkout   |-> "push-to-checkout",
     hook_proc_receive       |-> "proc-receive",
     hook_sendemail_validate |-> "sendemail-validate",
     hook_fsmonitor_watchman |-> "fsmonitor-watchman"]

\* C1: the generic entrypoint called with the arguments A = sys.argv[1:]
\* hands subprocess.call the command [interpreter, script path] followed by
\* exactly A: same length, same order, same values.
C1_GenericForwardsVerbatim ==
    (entry = "main" /\ Called) =>
        /\ Len(cmd) = 2 + (Len(argv) - 1)
        /\ cmd[1] = Interpreter
        /\ cmd[2] = ScriptPath
        /\ \A i \in 1..(Len(argv) - 1) : cmd[2 + i] = argv[1 + i]

C1_Witness ==
    /\ entry = "main"
    /\ childState = "running"
    /\ Len(argv) >= 3
    /\ argv[2] # argv[3]
    /\ cmd[3] = argv[2]
    /\ cmd[4] = argv[3]

\* C2: a named-hook entrypoint called with the arguments A spawns the script
\* with [name(H)] + A, name(H) being the listed command name of H; the 22
\* entrypoints have 22 distinct names; apart from that one token the command
\* is the generic one (same interpreter, same script path, A verbatim).
C2_HookPrependsItsName ==
    /\ Cardinality(HookEntries) = 22
    /\ DOMAIN ListedHookName = HookEntries
    /\ \A h1, h2 \in HookEntries : h1 # h2 => HookToken[h1] # HookToken[h2]
    /\ (entry \in HookEntries /\ Called) =>
           /\ Len(cmd) = 3 + (Len(argv) - 1)
           /\ cmd[1] = Interpreter
           /\ cmd[2] = ScriptPath
           /\ cmd[3] = ListedHookName[entry]
           /\ \A i \in 1..(Len(argv) - 1) : cmd[3 + i] = argv[1 + i]

C2_Witness ==
    /\ entry = "hook_post_update"
    /\ childState = "running"
    /\ Len(argv) >= 3
    /\ argv[2] # argv[3]
    /\ cmd[3] = "post-update"
    /\ cmd[4] = argv[2]
    /\ cmd[5] = argv[3]

\* C3: when the child exits with status E, the dispatcher's own exit status
\* is E, whichever entrypoint was called; a failing status is not mapped.
C3_ExitCodePropagated ==
    (pc = "done" /\ childState = "exited") => exitStatus = childCode

C3_Witness ==
    /\ pc = "done"
    /\ entry \in HookEntries
    /\ childState = "exited"
    /\ childCode = 17
    /\ exitStatus = 17

C5_OneSpawnAndBlocking ==
    /\ [](spawns <= 1)
    /\ [](pc = "done" => (spawns = 1 /\ childState # "running"))
    /\ [][spawns' # spawns => (spawns = 0 /\ childState = "none")]_vars
    /\ (childState \in {"exited", "signaled"}) ~> (pc = "done")

C5_Witness ==
    /\ pc = "done"
    /\ childState = "exited"
    /\ childCode = 1
    /\ exitStatus = 1
    /\ spawns = 1

\* C6: the interpreter is the value of BASH when BASH names a valid
\* executable and "bash" when BASH is unset; it is the first element of the
\* spawned command and the script path is the second.
C6_InterpreterSelection ==
    Called =>
        /\ ("BASH" \in DOMAIN env /\ env["BASH"] \in ValidExecutables)
              => (bash = env["BASH"] /\ cmd[1] = env["BASH"])
        /\ "BASH" \notin DOMAIN env => (bash = "bash" /\ cmd[1] = "bash")
        /\ cmd[1] = bash
        /\ cmd[2] = ScriptPath

C6_Witness ==
    /\ "BASH" \in DOMAIN env
    /\ env["BASH"] = "/bin/sh"
    /\ pathHasBash
    /\ childState = "running"
    /\ cmd[1] = "/bin/sh"

\* C7: when the child is killed by a signal, subprocess.call returns a
\* non-zero value and the dispatcher's own exit status is non-zero.
C7_SignalIsFailure ==
    /\ (pc \in {"returned", "done"} /\ childState = "signaled") => returncode # 0
    /\ (pc = "done" /\ childState = "signaled") => exitStatus # 0

C7_Witness ==
    /\ pc = "done"
    /\ childState = "signaled"
    /\ childCode = 9
    /\ returncode = 0 - 9
    /\ exitStatus = 247

\* C8: the resolved script path is fishook.sh in the module's own directory
\* whatever the arguments, the entrypoint and the environment are; resolving
\* never fails and never looks at the file, so with a missing script the
\* dispatcher still reaches the spawn and nothing ends before it.
C8_PathFromLayoutOnly ==
    /\ pc \notin {"start", "run_sh"} => sh = ScriptPath
    /\ pc \in {"raised", "done"} => spawns = 1
    /\ (~scriptExists /\ pc \in {"returned", "done"} /\ CanExec(bash))
           => childState # "none"

C8_Witness ==
    /\ ~scriptExists
    /\ "BASH" \in DOMAIN env
    /\ Len(argv) > 1
    /\ entry \in HookEntries
    /\ pc = "wait"
    /\ childState = "exited"
    /\ sh = ScriptPath

\* C9: the entrypoint of hook H called with A spawns the command the generic
\* entrypoint spawns for [H] + A, and ends with the exit status the generic
\* entrypoint ends with for the same outcome of that command.
C9_HookEqualsGenericWithName ==
    entry \in HookEntries =>
        /\ Called =>
              cmd = Command(environ_get(env, "BASH", "bash"), _fishook_sh(here),
                            main_args(<<argv[1], ListedHookName[entry]>> \o Tail(argv)))
        /\ pc = "done" =>
              exitStatus = IF childState = "none"
                             THEN 1
                             ELSE SystemExit(Returncode(childState, childCode))

C9_Witness ==
    /\ entry = "hook_update"
    /\ pc = "done"
    /\ Len(argv) = 3
    /\ cmd = <<bash, sh, "update", argv[2], argv[3]>>
    /\ childState = "exited"
    /\ childCode = 255
    /\ exitStatus = 255

\* C10: a BASH variable that is present is used as the interpreter as it
\* is, the empty string and a name that is no executable included; there is
\* no fallback to "bash", and the failed spawn ends the dispatcher with a
\* non-zero exit status.
C10_NoFallbackWhenSet ==
    "BASH" \in DOMAIN env =>
        /\ pc \notin {"start", "run_sh"} => bash = env["BASH"]
        /\ Called => cmd[1] = env["BASH"]
        /\ (pc = "done" /\ env["BASH"] \notin ValidExecutables)
               => (childState = "none" /\ exitStatus # 0)

C10_Witness ==
    /\ "BASH" \in DOMAIN env
    /\ env["BASH"] = ""
    /\ pathHasBash
    /\ scriptExists
    /\ pc = "done"
    /\ cmd[1] = ""
    /\ exitStatus = 1

====
